---- MODULE Spec2Model ----
(***************************************************************************)
(* The two GPU ray-casting fragment shaders of the volume renderer:        *)
(*   "lighting" : shaders/volume_rendering_lighting.frag (procedural       *)
(*                volume of two cubes and a sphere, 256 samples per ray)   *)
(*   "texture"  : the texture-backed overlay shader (3D texture volume,    *)
(*                150 samples per ray)                                     *)
(* One behaviour is the evaluation of mainImage for one fragment, i.e. for *)
(* one ray: bounding-box test, ray-march loop, final blend.                *)
(*                                                                         *)
(* Floats are modelled as exact fixed-point integers:                      *)
(*   positions   in units of 1/PosScale(s) of a world unit,                *)
(*   ray parameters t in units of 1/TScale(s),                             *)
(*   colour channels in units of 1/ColorScale,                             *)
(*   densities in units of 1.0E-7 (the shader's EPS).                      *)
(* Ray directions are unit vectors with rational components n/den.         *)
(*                                                                         *)
(* The second part models the Visualization widget of visualization.cpp:   *)
(* paintGL, setDIM and the timer, applyPreprocessing and its stages, the   *)
(* two divergence functions, transferFunction and opacityCorrection. One   *)
(* behaviour of SpecViz is one call of one of them, run statement by       *)
(* statement from every modelled input.                                    *)
(***************************************************************************)
EXTENDS Integers, Sequences, FiniteSets, TLC

VARIABLES shader,      \* which fragment shader runs
          rayOrig,     \* camPos, position units
          rayDir,      \* [n |-> numerators, den |-> denominator] of the unit direction
          pc,          \* "start" | "march" | "done"
          tNear, tFar, \* out parameters of intersectBoundingBox (lighting: tNear after the clamp)
          hit,         \* return value of intersectBoundingBox
          i,           \* loop counter of the ray-march loop
          t,           \* texture shader: current ray parameter
          pos,         \* lighting shader: current sample position
          finalColor,  \* accumulated colour (vec4)
          fragColor,   \* the fragment colour written by mainImage
          nSamples,    \* number of sampleVolume evaluations so far
          lastValue,   \* the value returned by the latest sampleVolume call
          allBelow,    \* every sample so far was transparent under transferFunction
          firstOpaque  \* lighting shader: transferFunction colour of the first opaque sample

\* the Visualization widget (visualization.cpp); one behaviour of SpecViz is one call of
\* one of its member functions or helpers
VARIABLES call,              \* the function that is called ("none": no call, Spec)
          at,                \* position inside the call; "returned" after it
          arg,               \* the argument of the call
          ret,               \* the return value (the divergence vector while it is filled)
          m_DIM,             \* Visualization::m_DIM
          simDIM,            \* the grid size of m_simulation
          m_numberOfGlyphsX, m_numberOfGlyphsY,
          timerActive,       \* m_timer.isActive()
          tickAtMismatch,    \* ghost: a timer tick ran while m_DIM # simDIM
          drawFlags,         \* m_drawHeightplot, m_drawLIC, ... as a record
          prepFlags,         \* m_useQuantization, ... as a record
          trace,             \* the calls made so far, in order
          depthCleared,      \* glClear was given GL_DEPTH_BUFFER_BIT
          scalarValues,      \* the vector handed to the preprocessing stages
          idx,               \* loop index of the divergence functions
          outOfRange         \* ghost: an index outside the vector was used

rayVars == <<shader, rayOrig, rayDir, pc, tNear, tFar, hit, i, t, pos,
             finalColor, fragColor, nSamples, lastValue, allBelow, firstOpaque>>
vizVars == <<call, at, arg, ret, m_DIM, simDIM, m_numberOfGlyphsX, m_numberOfGlyphsY,
             timerActive, tickAtMismatch, drawFlags, prepFlags, trace, depthCleared,
             scalarValues, idx, outOfRange>>
vars == <<rayVars, vizVars>>

\* no member function of the widget is running
NoDrawFlags == [m_drawHeightplot |-> FALSE, m_drawLIC |-> FALSE, m_drawVolumeRendering |-> FALSE,
                m_drawScalarData |-> FALSE, m_drawIsolines |-> FALSE, m_drawVectorData |-> FALSE]
NoPrepFlags == [m_useQuantization |-> FALSE, m_useGaussianBlur |-> FALSE,
                m_useGradients |-> FALSE, m_useSlicing |-> FALSE]
ArgRest == arg = <<>> /\ ret = <<>>
DimRest ==
  /\ m_DIM = 1 /\ simDIM = 1 /\ m_numberOfGlyphsX = 1 /\ m_numberOfGlyphsY = 1
  /\ timerActive = TRUE /\ tickAtMismatch = FALSE
DrawRest == drawFlags = NoDrawFlags /\ depthCleared = FALSE
PrepRest == prepFlags = NoPrepFlags /\ scalarValues = <<>>
DivRest == idx = 0 /\ outOfRange = FALSE
VizRest == ArgRest /\ DimRest /\ DrawRest /\ PrepRest /\ DivRest /\ trace = <<>>

Shaders == {"lighting", "texture"}

\* ---- bounds of the model ------------------------------------------------
\* ray origins are drawn from the grid {-MaxCoord..MaxCoord}^3 * OrigStep
MaxCoord == 1

\* ---- fixed-point representation -----------------------------------------
PosScale(s) == IF s = "lighting" THEN 768 ELSE 20
TScale(s) == IF s = "lighting" THEN 256 ELSE 4200
ColorScale == 1600

\* ---- shader constants ----------------------------------------------------
sampleNum(s) == IF s = "lighting" THEN 256 ELSE 150
bbMin(s) == IF s = "lighting" THEN -((7 * PosScale(s)) \div 2) ELSE -(PosScale(s) \div 2)
bbMax(s) == IF s = "lighting" THEN (7 * PosScale(s)) \div 2 ELSE PosScale(s) \div 2
background == <<0, 0, 0, ColorScale>>
vec4zero == <<0, 0, 0, 0>>

\* rayStepSize = (bbMax.x - bbMin.x) / float(sampleNum), in t units
rayStepSize(s) == ((bbMax(s) - bbMin(s)) * TScale(s)) \div (PosScale(s) * sampleNum(s))

\* ---- small vector helpers (GLSL built-ins) ---------------------------------
min(a, b) == IF a < b THEN a ELSE b
max(a, b) == IF a > b THEN a ELSE b
abs(a) == IF a < 0 THEN -a ELSE a

\* ---- the rays -------------------------------------------------------------
\* unit directions (a,b,c)/3 with non-zero components
GridDirs == {d \in {-2, -1, 1, 2} \X {-2, -1, 1, 2} \X {-2, -1, 1, 2} :
               d[1] * d[1] + d[2] * d[2] + d[3] * d[3] = 9}
OrigStep(s) == IF s = "lighting" THEN 4 ELSE 1
GridOrigins(s) == {<<x * OrigStep(s) * PosScale(s), y * OrigStep(s) * PosScale(s),
                     z * OrigStep(s) * PosScale(s)>> :
                     x \in -MaxCoord..MaxCoord, y \in -MaxCoord..MaxCoord, z \in -MaxCoord..MaxCoord}
GridRays(s) == {[o |-> o, d |-> [n |-> d, den |-> 3]] : o \in GridOrigins(s), d \in GridDirs}

\* rays the orbit camera of mainImage produces:
\*  lighting: camPos = 7 * (cos, 0.5, sin) at iTime * camSpeed = 0, i.e. (7, 3.5, 0)
\*  texture : camPos = 1.5 * (cos, 0.5, sin) with cos = 0.6, sin = 0.8, i.e. (0.9, 0.75, 1.2)
\* with directions inside the view frustum around camDir = -normalize(camPos)
CameraRays(s) ==
  IF s = "lighting"
  THEN {[o |-> <<7 * PosScale(s), (7 * PosScale(s)) \div 2, 0>>, d |-> [n |-> n, den |-> 3]] :
          n \in {<<-2, -2, -1>>, <<-2, -1, -2>>, <<-2, -1, 2>>, <<-2, -2, 1>>}}
  ELSE {[o |-> <<18, 15, 24>>, d |-> [n |-> n, den |-> 11]] :
          n \in {<<-6, -6, -7>>, <<-6, -7, -6>>, <<-7, -6, -6>>}}

Rays(s) == GridRays(s) \cup CameraRays(s)

\* ---- intersectBoundingBox --------------------------------------------------
\* invR * (b - rayOrig) for one axis, in t units: (b - o) * den / n
Slab(s, b, o, d, axis) ==
  LET num == (b - o[axis]) * d.den * TScale(s)
      dn  == PosScale(s) * d.n[axis]
  IN  IF dn < 0 THEN (-num) \div (-dn) ELSE num \div dn

tbot(s, o, d) ==
  <<Slab(s, bbMin(s), o, d, 1), Slab(s, bbMin(s), o, d, 2), Slab(s, bbMin(s), o, d, 3)>>
ttop(s, o, d) ==
  <<Slab(s, bbMax(s), o, d, 1), Slab(s, bbMax(s), o, d, 2), Slab(s, bbMax(s), o, d, 3)>>
tmin(s, o, d) ==
  <<min(ttop(s, o, d)[1], tbot(s, o, d)[1]), min(ttop(s, o, d)[2], tbot(s, o, d)[2]),
    min(ttop(s, o, d)[3], tbot(s, o, d)[3])>>
tmax(s, o, d) ==
  <<max(ttop(s, o, d)[1], tbot(s, o, d)[1]), max(ttop(s, o, d)[2], tbot(s, o, d)[2]),
    max(ttop(s, o, d)[3], tbot(s, o, d)[3])>>

\* mutant: the z axis is left out of the maximum
largestTMinNoZ(s, o, d) ==
  LET m == tmin(s, o, d) IN max(max(m[1], m[2]), max(m[1], m[2]))

largestTMin(s, o, d) ==
  LET m == tmin(s, o, d) IN max(max(m[1], m[2]), max(m[1], m[3]))

smallestTMax(s, o, d) ==
  LET m == tmax(s, o, d) IN min(min(m[1], m[2]), min(m[1], m[3]))

intersectBoundingBox(s, o, d) ==
  [tNear |-> largestTMin(s, o, d),
   tFar  |-> smallestTMax(s, o, d),
   hit   |-> smallestTMax(s, o, d) > largestTMin(s, o, d)]

\* ---- procedural volume (lighting shader) -----------------------------------
\* xyz = centre, w = radius / half-width, in world units times 2
cube1 == [c |-> <<0, 0, 0>>, w2 |-> 2]
cube2 == [c |-> <<2, 2, 2>>, w2 |-> 3]
sphere1 == [c |-> <<2, 0, 6>>, w2 |-> 1]

\* densities and EPS in units of 1.0E-7
cube1Density == 150000
cube2Density == 200000
sphere1Density == 300000
EPS == 1

HalfUnit == PosScale("lighting") \div 2

isInSphere(point, sphere) ==
  LET dx == point[1] - sphere.c[1] * HalfUnit
      dy == point[2] - sphere.c[2] * HalfUnit
      dz == point[3] - sphere.c[3] * HalfUnit
      r  == sphere.w2 * HalfUnit
  IN  dx * dx + dy * dy + dz * dz <= r * r

isInCube(point, cube) ==
  \A axis \in 1..3 : abs(point[axis] - cube.c[axis] * HalfUnit) < cube.w2 * HalfUnit

\* mutant: overlapping primitives do not add up, the densest one wins
sampleVolumeDensest(volumeCoord) ==
  max(max(IF isInCube(volumeCoord, cube1) THEN cube1Density ELSE 0,
          IF isInCube(volumeCoord, cube2) THEN cube2Density ELSE 0),
      IF isInSphere(volumeCoord, sphere1) THEN sphere1Density ELSE 0)

sampleVolume(volumeCoord) ==
  (IF isInCube(volumeCoord, cube1) THEN cube1Density ELSE 0)
  + (IF isInCube(volumeCoord, cube2) THEN cube2Density ELSE 0)
  + (IF isInSphere(volumeCoord, sphere1) THEN sphere1Density ELSE 0)

\* values a texture lookup can return, in colour units: 0, 0.25, 0.5, 0.75, 1
TextureValues == {0, ColorScale \div 4, ColorScale \div 2, (3 * ColorScale) \div 4, ColorScale}

\* ---- transferFunction ----------------------------------------------------------
transferFunctionL(value) ==
  IF value > EPS
  THEN IF value > cube1Density + EPS
       THEN IF value > cube2Density + EPS
            THEN IF value > cube1Density + cube2Density + EPS
                 THEN <<0, 0, 0, ColorScale>>
                 ELSE <<ColorScale, 0, 0, ColorScale>>
            ELSE <<0, ColorScale, 0, ColorScale>>
       ELSE <<0, 0, ColorScale, ColorScale>>
  ELSE vec4zero

transferFunctionT(value) ==
  IF 2 * value < ColorScale THEN vec4zero ELSE <<value, value, value, value>>

transferFunction(s, value) ==
  IF s = "lighting" THEN transferFunctionL(value) ELSE transferFunctionT(value)

\* the sample is classified as empty space: not above EPS (lighting), below 0.5 (texture)
belowThreshold(s, value) ==
  IF s = "lighting" THEN ~(value > EPS) ELSE 2 * value < ColorScale

\* ---- lighting (stub in the source: returns the diffuse colour) --------------------
\* mutant: only the ambient term ka * diffuseColor is returned
lightingAmbientOnly(diffuseColor, normal, eyeDir) ==
  <<diffuseColor[1] \div 2, diffuseColor[2] \div 2, diffuseColor[3] \div 2, diffuseColor[4] \div 2>>

lighting(diffuseColor, normal, eyeDir) == diffuseColor

\* ---- compositing ------------------------------------------------------------------
\* color.rgb *= color.a
premultiply(color) ==
  <<(color[1] * color[4]) \div ColorScale, (color[2] * color[4]) \div ColorScale,
    (color[3] * color[4]) \div ColorScale, color[4]>>

\* mutant: the weight has the wrong sign, color * (finalColor.w - 1.0F)
weightedNeg(fc, color, ch) == fc[ch] - (color[ch] * (ColorScale - fc[4])) \div ColorScale

frontToBackSignSlip(fc, color) ==
  <<weightedNeg(fc, color, 1), weightedNeg(fc, color, 2),
    weightedNeg(fc, color, 3), weightedNeg(fc, color, 4)>>

\* finalColor += color * (1.0F - finalColor.w)
frontToBack(fc, color) ==
  <<fc[1] + (color[1] * (ColorScale - fc[4])) \div ColorScale,
    fc[2] + (color[2] * (ColorScale - fc[4])) \div ColorScale,
    fc[3] + (color[3] * (ColorScale - fc[4])) \div ColorScale,
    fc[4] + (color[4] * (ColorScale - fc[4])) \div ColorScale>>

\* one iteration body of the lighting ray-march loop, after the sample was taken
compositeSample(fc, sampleValue, d) ==
  frontToBack(fc, premultiply(lighting(transferFunction("lighting", sampleValue), "undefined", d)))

\* mutant: the background factor is dropped, finalColor * finalColor.a + (1.0F - finalColor.a)
blendLNoBackground(fc) ==
  <<(fc[1] * fc[4]) \div ColorScale + (ColorScale - fc[4]),
    (fc[2] * fc[4]) \div ColorScale + (ColorScale - fc[4]),
    (fc[3] * fc[4]) \div ColorScale + (ColorScale - fc[4]),
    (fc[4] * fc[4]) \div ColorScale + (ColorScale - fc[4])>>

\* fragColor = finalColor * finalColor.a + (1.0F - finalColor.a) * background
blendL(fc) ==
  <<(fc[1] * fc[4]) \div ColorScale + ((ColorScale - fc[4]) * background[1]) \div ColorScale,
    (fc[2] * fc[4]) \div ColorScale + ((ColorScale - fc[4]) * background[2]) \div ColorScale,
    (fc[3] * fc[4]) \div ColorScale + ((ColorScale - fc[4]) * background[3]) \div ColorScale,
    (fc[4] * fc[4]) \div ColorScale + ((ColorScale - fc[4]) * background[4]) \div ColorScale>>

\* texture shader: accumulation(value, opacityCorrectionFactor, composedColor).
\* transferFunction and opacityCorrection are evaluated into the local `color`,
\* which the placeholder assignment never reads.
accumulation(value, composedColor) ==
  <<value \div 2, value \div 2, value \div 2, value \div 2>>

\* fragColor.rgb = mix(background.rgb, finalColor.rgb, finalColor.a); fragColor.a = 1
blendT(fc) ==
  <<(background[1] * (ColorScale - fc[4])) \div ColorScale + (fc[1] * fc[4]) \div ColorScale,
    (background[2] * (ColorScale - fc[4])) \div ColorScale + (fc[2] * fc[4]) \div ColorScale,
    (background[3] * (ColorScale - fc[4])) \div ColorScale + (fc[3] * fc[4]) \div ColorScale,
    ColorScale>>

\* mutant: the comparison is inverted, finalColor.a < 0.99F
earlyTerminationInverted(fc) == 100 * fc[4] < 99 * ColorScale

\* if (finalColor.a > 0.99F) break
earlyTermination(fc) == 100 * fc[4] > 99 * ColorScale

\* camPos + rayDir * tParam (lighting shader; exact because TScale * den = PosScale)
pointAt(o, d, tParam) ==
  <<o[1] + tParam * d.n[1], o[2] + tParam * d.n[2], o[3] + tParam * d.n[3]>>

\* pos += rayStepSize * rayDir
advance(p, d) ==
  <<p[1] + rayStepSize("lighting") * d.n[1], p[2] + rayStepSize("lighting") * d.n[2],
    p[3] + rayStepSize("lighting") * d.n[3]>>

\* ---- the state machine: mainImage for one fragment --------------------------------
Init ==
  /\ shader \in Shaders
  /\ \E r \in Rays(shader) : rayOrig = r.o /\ rayDir = r.d
  /\ pc = "start"
  /\ tNear = 0 /\ tFar = 0 /\ hit = FALSE
  /\ i = 0 /\ t = 0
  /\ pos = rayOrig
  /\ finalColor = vec4zero
  /\ fragColor = vec4zero
  /\ nSamples = 0 /\ lastValue = 0 /\ allBelow = TRUE /\ firstOpaque = <<>>
  /\ call = "none" /\ at = "off" /\ VizRest

\* lighting shader: bounding-box test, clamp of tNear, miss return, loop set-up
IntersectL ==
  /\ pc = "start" /\ shader = "lighting"
  /\ LET r == intersectBoundingBox(shader, rayOrig, rayDir)
         near == IF r.tNear < 0 THEN 0 ELSE r.tNear
     IN  /\ tNear' = near
         /\ tFar' = r.tFar
         /\ hit' = r.hit
         /\ IF ~r.hit
            THEN /\ fragColor' = background
                 /\ pc' = "done"
                 /\ pos' = pos
            ELSE /\ pos' = pointAt(rayOrig, rayDir, near)
                 /\ pc' = "march"
                 /\ fragColor' = fragColor
  /\ UNCHANGED <<shader, rayOrig, rayDir, i, t, finalColor, nSamples, lastValue, allBelow, firstOpaque, vizVars>>

\* lighting shader: one iteration of the for loop that does not break
MarchL ==
  /\ pc = "march" /\ shader = "lighting"
  /\ i < sampleNum(shader)
  /\ ~earlyTermination(finalColor)
  /\ LET p == advance(pos, rayDir)
         sampleValue == sampleVolume(p)
         color == transferFunction(shader, sampleValue)
     IN  /\ pos' = p
         /\ lastValue' = sampleValue
         /\ finalColor' = compositeSample(finalColor, sampleValue, rayDir)
         /\ allBelow' = (allBelow /\ belowThreshold(shader, sampleValue))
         /\ firstOpaque' = IF firstOpaque = <<>> /\ color # vec4zero THEN color ELSE firstOpaque
  /\ i' = i + 1
  /\ nSamples' = nSamples + 1
  /\ UNCHANGED <<shader, rayOrig, rayDir, pc, tNear, tFar, hit, t, fragColor, vizVars>>

\* lighting shader: loop exit (counter exhausted or early ray termination) and final blend
FinishL ==
  /\ pc = "march" /\ shader = "lighting"
  /\ (i >= sampleNum(shader) \/ earlyTermination(finalColor))
  /\ fragColor' = blendL(finalColor)
  /\ pc' = "done"
  /\ UNCHANGED <<shader, rayOrig, rayDir, tNear, tFar, hit, i, t, pos, finalColor,
                 nSamples, lastValue, allBelow, firstOpaque, vizVars>>

\* texture shader: bounding-box test, miss return, loop set-up
IntersectT ==
  /\ pc = "start" /\ shader = "texture"
  /\ LET r == intersectBoundingBox(shader, rayOrig, rayDir)
     IN  /\ tNear' = r.tNear
         /\ tFar' = r.tFar
         /\ hit' = r.hit
         /\ IF ~r.hit
            THEN /\ fragColor' = background
                 /\ pc' = "done"
                 /\ t' = t
            ELSE /\ t' = r.tNear
                 /\ pc' = "march"
                 /\ fragColor' = fragColor
  /\ UNCHANGED <<shader, rayOrig, rayDir, i, pos, finalColor, nSamples, lastValue, allBelow, firstOpaque, vizVars>>

\* texture shader: one iteration of the while loop; the texture is arbitrary data
MarchT ==
  /\ pc = "march" /\ shader = "texture"
  /\ t < tFar /\ i < sampleNum(shader)
  /\ \E value \in TextureValues :
       /\ lastValue' = value
       /\ finalColor' = accumulation(value, finalColor)
       /\ allBelow' = (allBelow /\ belowThreshold(shader, value))
  /\ t' = t + rayStepSize(shader)
  /\ nSamples' = nSamples + 1
  /\ UNCHANGED <<shader, rayOrig, rayDir, pc, tNear, tFar, hit, i, pos, fragColor, firstOpaque, vizVars>>

\* texture shader: loop exit and final blend
FinishT ==
  /\ pc = "march" /\ shader = "texture"
  /\ ~(t < tFar /\ i < sampleNum(shader))
  /\ fragColor' = blendT(finalColor)
  /\ pc' = "done"
  /\ UNCHANGED <<shader, rayOrig, rayDir, tNear, tFar, hit, i, t, pos, finalColor,
                 nSamples, lastValue, allBelow, firstOpaque, vizVars>>

Next == IntersectL \/ MarchL \/ FinishL \/ IntersectT \/ MarchT \/ FinishT

Spec == Init /\ [][Next]_vars

\* ---- the ray march of the lighting shader with the early-termination check removed ----
\* iteration k (counting from 0) of the loop body: sample k + 1 steps after the entry
\* point p0 and composite it into fc
iterationWithoutBreak(k, fc, p0, d) ==
  compositeSample(fc, sampleVolume(pointAt(p0, d, (k + 1) * rayStepSize("lighting"))), d)

\* iterations lo .. hi-1 in order, starting from fc (the first half is evaluated, then
\* the second half is run on its result)
RECURSIVE iterationsWithoutBreak(_, _, _, _, _)
iterationsWithoutBreak(lo, hi, fc, p0, d) ==
  IF hi - lo <= 1
  THEN IF hi - lo = 1 THEN iterationWithoutBreak(lo, fc, p0, d) ELSE fc
  ELSE CHOOSE r \in {iterationsWithoutBreak((lo + hi) \div 2, hi, x, p0, d) :
                       x \in {iterationsWithoutBreak(lo, (lo + hi) \div 2, fc, p0, d)}} : TRUE

marchWithoutBreak(p0, d) == iterationsWithoutBreak(0, sampleNum("lighting"), vec4zero, p0, d)

\* ---- geometry used to state the properties ---------------------------------------
\* the forward half-line t >= 0 of the ray contains a point of the closed box:
\* some t >= 0 lies in all three per-axis slab intervals
ForwardHit ==
  LET lo == tmin(shader, rayOrig, rayDir)
      hi == tmax(shader, rayOrig, rayDir)
  IN  /\ \A a \in 1..3 : \A b \in 1..3 : lo[a] <= hi[b]
      /\ \A b \in 1..3 : 0 <= hi[b]

\* ray parameter of the latest sample
\*  lighting: pos = camPos + t * rayDir, solved for t on the x axis
\*  texture : the sample was taken at t before `t += rayStepSize`
sampleT ==
  IF shader = "lighting"
  THEN (pos[1] - rayOrig[1]) \div rayDir.n[1]
  ELSE t - rayStepSize(shader)

\* ---- C1 ---------------------------------------------------------------------------
\* C1: in the lighting shader every step of the ray march leaves finalColor.a at least
\* as large as it was, and inside [0,1].
C1_AlphaMonotoneBounded ==
  [][shader = "lighting" =>
       /\ finalColor'[4] >= finalColor[4]
       /\ finalColor'[4] >= 0 /\ finalColor'[4] <= ColorScale]_vars

\* an opaque sample was composited after at least one transparent one
C1_Witness ==
  /\ shader = "lighting" /\ pc = "march"
  /\ nSamples >= 2 /\ finalColor[4] = ColorScale

C3_SlabResult ==
  (pc # "start" /\ nSamples = 0) =>
    \E r \in {intersectBoundingBox(shader, rayOrig, rayDir)} :
    \E bot \in {tbot(shader, rayOrig, rayDir)} :
    \E top \in {ttop(shader, rayOrig, rayDir)} :
      LET lo(axis) == IF bot[axis] < top[axis] THEN bot[axis] ELSE top[axis]
          hi(axis) == IF bot[axis] < top[axis] THEN top[axis] ELSE bot[axis]
      IN  /\ \A axis \in 1..3 : r.tNear >= lo(axis)
          /\ \E axis \in 1..3 : r.tNear = lo(axis)
          /\ \A axis \in 1..3 : r.tFar <= hi(axis)
          /\ \E axis \in 1..3 : r.tFar = hi(axis)
          /\ r.hit = (r.tFar > r.tNear)
          /\ (r.tNear >= r.tFar => ~r.hit)
          /\ hit = r.hit
          /\ tFar = r.tFar
          /\ tNear = IF shader = "lighting" /\ r.tNear < 0 THEN 0 ELSE r.tNear

\* the test ran on a ray whose entry distance is decided by the z axis alone
C3_Witness ==
  /\ pc = "march" /\ nSamples = 0 /\ hit
  /\ LET lo == tmin(shader, rayOrig, rayDir)
     IN  lo[3] > lo[1] /\ lo[3] > lo[2] /\ tNear = lo[3]

\* ---- C4 ---------------------------------------------------------------------------
\* C4: in the lighting shader a ray that hits the box and whose samples all have a
\* density not above EPS yields exactly the background colour.
C4_EmptyRayIsBackground ==
  (shader = "lighting" /\ pc = "done" /\ hit /\ allBelow) => fragColor = background

\* a hit ray ran all sampleNum samples through empty space
C4_Witness ==
  /\ shader = "lighting" /\ pc = "done" /\ hit /\ allBelow
  /\ nSamples = sampleNum("lighting")

\* ---- C5 ---------------------------------------------------------------------------
\* C5: in the lighting shader the fragment colour computed with early ray termination
\* equals the one computed by running all sampleNum iterations without the check.
C5_EarlyTerminationIsOptimization ==
  (shader = "lighting" /\ pc = "done" /\ hit) =>
    fragColor = blendL(marchWithoutBreak(pointAt(rayOrig, rayDir, tNear), rayDir))

\* the loop was left by the break with samples still unexamined
C5_Witness ==
  /\ shader = "lighting" /\ pc = "done" /\ hit
  /\ nSamples < sampleNum("lighting") /\ earlyTermination(finalColor)

\* ---- C6 ---------------------------------------------------------------------------
\* C6: in the lighting shader a hit ray with a sample above EPS gets the
\* transferFunction colour of the first such sample, and no sample after it is looked at.
C6_FirstOpaqueSampleDecides ==
  (shader = "lighting" /\ pc = "done" /\ hit /\ ~allBelow) =>
    /\ fragColor = firstOpaque
    /\ firstOpaque = transferFunction(shader, lastValue)

\* the first opaque sample came after transparent ones and before the last iteration
C6_Witness ==
  /\ shader = "lighting" /\ pc = "done" /\ hit /\ ~allBelow
  /\ nSamples > 1 /\ nSamples < sampleNum("lighting")
  /\ fragColor = <<0, ColorScale, 0, ColorScale>>

\* ---- C7 ---------------------------------------------------------------------------
\* C7: in the texture shader the ray march takes at most sampleNum samples.
C7_AtMostSampleNumSamples ==
  shader = "texture" => nSamples <= sampleNum("texture")

\* ---- C8 ---------------------------------------------------------------------------
\* C8: in both shaders every sample is taken at a ray parameter t with
\* max(tNear, 0) <= t <= tFar.
C8_SamplesBetweenEntryAndExit ==
  nSamples > 0 => (max(tNear, 0) <= sampleT /\ sampleT <= tFar)

\* ---- C9 ---------------------------------------------------------------------------
\* C9: in the texture shader every call of accumulation leaves composedColor.a at least
\* as large as it was, and inside [0,1].
C9_AccumulationAlphaMonotone ==
  [][shader = "texture" =>
       /\ finalColor'[4] >= finalColor[4]
       /\ finalColor'[4] >= 0 /\ finalColor'[4] <= ColorScale]_vars

\* ---- C10 --------------------------------------------------------------------------
\* C10: in the texture shader a hit ray whose samples are all below 0.5 yields the
\* background colour.
C10_TransparentRayIsBackground ==
  (shader = "texture" /\ pc = "done" /\ hit /\ allBelow) => fragColor = background

\* ---- C11 --------------------------------------------------------------------------
\* the primitives as point sets in world coordinates (half units): the open box
\* ]c - w, c + w[^3 and the closed ball of radius r around c
InsideBox(p, lo, hi) == \A axis \in 1..3 : lo[axis] * HalfUnit < p[axis] /\ p[axis] < hi[axis] * HalfUnit
InsideBall(p, c, r2) ==
  (p[1] - c[1] * HalfUnit) * (p[1] - c[1] * HalfUnit)
  + (p[2] - c[2] * HalfUnit) * (p[2] - c[2] * HalfUnit)
  + (p[3] - c[3] * HalfUnit) * (p[3] - c[3] * HalfUnit) <= r2 * HalfUnit * r2 * HalfUnit
ContainingDensities(p) ==
  <<IF InsideBox(p, <<-2, -2, -2>>, <<2, 2, 2>>) THEN cube1Density ELSE 0,
    IF InsideBox(p, <<-1, -1, -1>>, <<5, 5, 5>>) THEN cube2Density ELSE 0,
    IF InsideBall(p, <<2, 0, 6>>, 1) THEN sphere1Density ELSE 0>>
OutsideBoundingBox(p) == \E axis \in 1..3 : p[axis] < bbMin("lighting") \/ p[axis] > bbMax("lighting")

\* C11: every sample the lighting shader takes is the sum of the densities of exactly the
\* primitives that contain the sample position, and it is 0 at every position outside all
\* three primitives, in particular at every position outside the bounding box.
C11_SampleIsSumOfContainingPrimitives ==
  (shader = "lighting" /\ nSamples > 0) =>
    LET d == ContainingDensities(pos)
    IN  /\ lastValue = d[1] + d[2] + d[3]
        /\ (d = <<0, 0, 0>> => lastValue = 0)
        /\ (OutsideBoundingBox(pos) => lastValue = 0)
\* a sample in the overlap of the two cubes
C11_Witness ==
  shader = "lighting" /\ nSamples > 0 /\ lastValue = cube1Density + cube2Density

\* ---- C12 --------------------------------------------------------------------------
\* C12: in each shader transferFunction maps every sample value below the threshold (EPS in
\* the lighting shader, 0.5 in the texture shader) to alpha 0 and every value above it to
\* alpha exactly 1.
C12_ThresholdClassification ==
  nSamples > 0 =>
    LET threshold == IF shader = "lighting" THEN EPS ELSE ColorScale \div 2
        color == transferFunction(shader, lastValue)
    IN  /\ (lastValue < threshold => color[4] = 0)
        /\ (lastValue > threshold => color[4] = ColorScale)

\* ==== the Visualization widget (visualization.cpp) ===================================
\* the ray of the shader model is not part of these behaviours
RayRest ==
  /\ shader = "none" /\ pc = "off"
  /\ rayOrig = <<0, 0, 0>> /\ rayDir = [n |-> <<0, 0, 0>>, den |-> 1] /\ pos = <<0, 0, 0>>
  /\ tNear = 0 /\ tFar = 0 /\ hit = FALSE /\ i = 0 /\ t = 0
  /\ finalColor = vec4zero /\ fragColor = vec4zero
  /\ nSamples = 0 /\ lastValue = 0 /\ allBelow = TRUE /\ firstOpaque = <<>>

\* grid sizes m_DIM ranges over: 1 .. MaxDIM
MaxDIM == 4

\* ---- velocityDivergence / forceFieldDivergence -------------------------------------
\* The two functions differ only in the field they read (vx, vy or fx, fy), so one set of
\* actions models both. backwardFiniteDifference(idx, previousX_idx, previousY_idx) is
\* (v_x(idx) - v_x(previousX_idx)) / m_cellWidth + (v_y(idx) - v_y(previousY_idx)) / m_cellHeight;
\* it is kept as the triple of indices it reads. Indices are size_t: a value below 0
\* stands for an unsigned underflow.
Divergences == {"velocityDivergence", "forceFieldDivergence"}
backwardFiniteDifference(k, previousX_idx, previousY_idx) == <<k, previousX_idx, previousY_idx>>

\* at(0) = backwardFiniteDifference(0, m_DIM - 1, (m_DIM - 1) * m_DIM)
divFirst(dim) == backwardFiniteDifference(0, dim - 1, (dim - 1) * dim)
\* mutant: the first row reads the row above like the middle rows do, idx - m_DIM
divFirstRowAsMiddle(dim, k) == backwardFiniteDifference(k, k - 1, k - dim)
\* first row: backwardFiniteDifference(idx, idx - 1, idx + (m_DIM - 1) * m_DIM)
divFirstRow(dim, k) == backwardFiniteDifference(k, k - 1, k + (dim - 1) * dim)
\* middle rows
divMiddle(dim, k) ==
  IF k % dim = 0 THEN backwardFiniteDifference(k, k + dim - 1, k - dim)
                 ELSE backwardFiniteDifference(k, k - 1, k - dim)
\* at((m_DIM - 1) * m_DIM) = backwardFiniteDifference((m_DIM - 1) * m_DIM, m_DIM * m_DIM - 1, 0)
divLast(dim) == backwardFiniteDifference((dim - 1) * dim, dim * dim - 1, 0)
\* last row: backwardFiniteDifference(idx, idx - 1, idx - (m_DIM - 1) * m_DIM)
divLastRow(dim, k) == backwardFiniteDifference(k, k - 1, k - (dim - 1) * dim)

InRange(k) == 0 <= k /\ k < m_DIM * m_DIM
\* divergence.at(k) = d, with the reads d makes; .at() throws and the element stays
\* unassigned when k is outside the vector
Assign(k, d) ==
  /\ ret' = IF InRange(k) THEN [ret EXCEPT ![k + 1] = d] ELSE ret
  /\ outOfRange' = (outOfRange \/ ~InRange(d[1]) \/ ~InRange(d[2]) \/ ~InRange(d[3]) \/ ~InRange(k))

divUnchanged == <<arg, m_DIM, simDIM, m_numberOfGlyphsX, m_numberOfGlyphsY, timerActive,
                  tickAtMismatch, drawFlags, prepFlags, trace, depthCleared, scalarValues>>

InitDivergence ==
  /\ call \in Divergences /\ at = "entry"
  /\ arg = <<>> /\ ret = <<>>
  /\ m_DIM \in 1..MaxDIM /\ simDIM = m_DIM
  /\ m_numberOfGlyphsX = m_DIM /\ m_numberOfGlyphsY = m_DIM
  /\ timerActive = TRUE /\ tickAtMismatch = FALSE
  /\ DrawRest /\ PrepRest /\ DivRest /\ trace = <<>>

\* divergence.resize(m_DIM * m_DIM); <<>> marks an element that was not assigned since
DivResize ==
  /\ call \in Divergences /\ at = "entry"
  /\ ret' = [k \in 1..(m_DIM * m_DIM) |-> <<>>]
  /\ at' = "first"
  /\ UNCHANGED <<rayVars, call, idx, outOfRange, divUnchanged>>

DivFirst ==
  /\ call \in Divergences /\ at = "first"
  /\ Assign(0, divFirst(m_DIM))
  /\ idx' = 1 /\ at' = "firstRow"
  /\ UNCHANGED <<rayVars, call, divUnchanged>>

DivFirstRow ==
  /\ call \in Divergences /\ at = "firstRow" /\ idx < m_DIM
  /\ Assign(idx, divFirstRow(m_DIM, idx))
  /\ idx' = idx + 1
  /\ UNCHANGED <<rayVars, call, at, divUnchanged>>

DivFirstRowDone ==
  /\ call \in Divergences /\ at = "firstRow" /\ ~(idx < m_DIM)
  /\ idx' = m_DIM /\ at' = "middle"
  /\ UNCHANGED <<rayVars, call, ret, outOfRange, divUnchanged>>

DivMiddle ==
  /\ call \in Divergences /\ at = "middle" /\ idx < (m_DIM - 1) * m_DIM
  /\ Assign(idx, divMiddle(m_DIM, idx))
  /\ idx' = idx + 1
  /\ UNCHANGED <<rayVars, call, at, divUnchanged>>

DivMiddleDone ==
  /\ call \in Divergences /\ at = "middle" /\ ~(idx < (m_DIM - 1) * m_DIM)
  /\ at' = "last"
  /\ UNCHANGED <<rayVars, call, ret, idx, outOfRange, divUnchanged>>

DivLast ==
  /\ call \in Divergences /\ at = "last"
  /\ Assign((m_DIM - 1) * m_DIM, divLast(m_DIM))
  /\ idx' = (m_DIM - 1) * m_DIM + 1 /\ at' = "lastRow"
  /\ UNCHANGED <<rayVars, call, divUnchanged>>

DivLastRow ==
  /\ call \in Divergences /\ at = "lastRow" /\ idx < m_DIM * m_DIM
  /\ Assign(idx, divLastRow(m_DIM, idx))
  /\ idx' = idx + 1
  /\ UNCHANGED <<rayVars, call, at, divUnchanged>>

DivReturn ==
  /\ call \in Divergences /\ at = "lastRow" /\ ~(idx < m_DIM * m_DIM)
  /\ at' = "returned"
  /\ UNCHANGED <<rayVars, call, ret, idx, outOfRange, divUnchanged>>


\* ---- opacityCorrection ---------------------------------------------------------------
\* float values in [0,1] are kept exactly, as integers in units of 2^-30; every float
\* operation rounds its exact result to the nearest binary32 value, ties to even
One == 2^30

\* spacing of the binary32 values around x, in units: 1 below 2^24 units (every integer
\* below 2^24 has a 24-bit significand), doubling with every binade above
RECURSIVE ulp(_)
ulp(x) == IF x < 2^24 THEN 1 ELSE 2 * ulp(x \div 2)

roundToFloat(x) ==
  LET u == ulp(x)
      q == x \div u
      r == x % u
  IN  IF 2 * r < u THEN q * u
      ELSE IF 2 * r > u THEN (q + 1) * u
      ELSE IF q % 2 = 0 THEN q * u ELSE (q + 1) * u

\* a - b in float arithmetic, for 0 <= b <= a <= 1
fsub(a, b) == roundToFloat(a - b)

\* pow(x, y) for the two exponents at which it is exact: x^0 = 1 and x^1 = x
Ratios == {0, 1}
pow(x, y) == IF y = 0 THEN One ELSE x

\* mutant: the outer complement is missing, pow(1 - alpha, sampleRatio)
opacityCorrectionNoComplement(alpha, sampleRatio) == pow(fsub(One, alpha), sampleRatio)

\* C++: return 1.0F - std::pow(1.0F - alpha, sampleRatio)
opacityCorrection(alpha, sampleRatio) == fsub(One, pow(fsub(One, alpha), sampleRatio))

\* texture shader: a_corrected = 1.0F - pow(1.0F - alpha, samplingRatio)
opacityCorrectionT(alpha, samplingRatio) == fsub(One, pow(fsub(One, alpha), samplingRatio))

\* the alphas the function is called with: binary32 values m * 2^e in [0,1] with a short
\* significand m, and the values 1 - m * 2^-24 just below 1
MaxMantissa == 4
Alphas ==
  {a \in {m * 2^e : m \in 0..MaxMantissa, e \in 0..28} : a <= One}
  \cup {One - m * 2^6 : m \in 0..MaxMantissa}

OpacityCorrections == {"opacityCorrection", "opacityCorrectionT"}

InitOpacityCorrection ==
  /\ call \in OpacityCorrections /\ at = "entry"
  /\ arg \in Alphas \X Ratios /\ ret = <<>>
  /\ DimRest /\ DrawRest /\ PrepRest /\ DivRest /\ trace = <<>>

OpacityCorrection ==
  /\ call \in OpacityCorrections /\ at = "entry"
  /\ ret' = IF call = "opacityCorrection" THEN opacityCorrection(arg[1], arg[2])
                                           ELSE opacityCorrectionT(arg[1], arg[2])
  /\ at' = "returned"
  /\ UNCHANGED <<rayVars, call, arg, m_DIM, simDIM, m_numberOfGlyphsX, m_numberOfGlyphsY,
                 timerActive, tickAtMismatch, drawFlags, prepFlags, trace, depthCleared,
                 scalarValues, idx, outOfRange>>

\* ---- transferFunction of visualization.cpp --------------------------------------------
\* The argument value (0..255) is given in half steps, x = 2 * value, so that the
\* normalized value x / ValueSteps takes the node boundary 0.5 and the threshold 0.2
\* exactly. t and the rgb channels are in units of 1 / TUnit, alpha in units of
\* 1 / AlphaScale; with these units every operation of the function is exact.
ValueSteps == 2 * 255
TUnit == ValueSteps \div 2
AlphaScale == 2 * ValueSteps
colorNode0 == <<0, 0, 1>>
colorNode1 == <<0, 1, 0>>
colorNode2 == <<1, 0, 0>>

\* color0 * (1 - t) + color1 * t, per channel
interpolate(color0, color1, tt) ==
  <<color0[1] * (TUnit - tt) + color1[1] * tt,
    color0[2] * (TUnit - tt) + color1[2] * tt,
    color0[3] * (TUnit - tt) + color1[3] * tt>>

\* alpha = value * 0.5F; if (value < 0.2F) alpha = 0.5F
tfAlpha(x) == IF 5 * x < ValueSteps THEN AlphaScale \div 2 ELSE x

\* mutant: the else branch does not move on to the next pair of colour nodes
transferFunctionCppOnePair(x) ==
  LET rgb == IF 2 * x < ValueSteps THEN interpolate(colorNode0, colorNode1, x)
                                   ELSE interpolate(colorNode0, colorNode1, x - TUnit)
  IN  <<rgb[1], rgb[2], rgb[3], tfAlpha(x)>>

\* value < 0.5: t = 2 * value between colorNode0 and colorNode1;
\* otherwise:   t = 2 * (value - 0.5) between colorNode1 and colorNode2
transferFunctionCpp(x) ==
  LET rgb == IF 2 * x < ValueSteps THEN interpolate(colorNode0, colorNode1, x)
                                   ELSE interpolate(colorNode1, colorNode2, x - TUnit)
  IN  <<rgb[1], rgb[2], rgb[3], tfAlpha(x)>>

InitTransferFunction ==
  /\ call = "transferFunction" /\ at = "entry"
  /\ arg \in 0..ValueSteps /\ ret = <<>>
  /\ DimRest /\ DrawRest /\ PrepRest /\ DivRest /\ trace = <<>>

TransferFunction ==
  /\ call = "transferFunction" /\ at = "entry"
  /\ ret' = transferFunctionCpp(arg)
  /\ at' = "returned"
  /\ UNCHANGED <<rayVars, call, arg, m_DIM, simDIM, m_numberOfGlyphsX, m_numberOfGlyphsY,
                 timerActive, tickAtMismatch, drawFlags, prepFlags, trace, depthCleared,
                 scalarValues, idx, outOfRange>>

\* ---- paintGL ---------------------------------------------------------------------------
\* trace lists the draw functions paintGL calls, in order
paintUnchanged == <<call, arg, ret, m_DIM, simDIM, m_numberOfGlyphsX, m_numberOfGlyphsY,
                    timerActive, tickAtMismatch, drawFlags, prepFlags, scalarValues, idx, outOfRange>>

InitPaintGL ==
  /\ call = "paintGL" /\ at = "entry"
  /\ drawFlags \in [m_drawHeightplot : BOOLEAN, m_drawLIC : BOOLEAN, m_drawVolumeRendering : BOOLEAN,
                     m_drawScalarData : BOOLEAN, m_drawIsolines : BOOLEAN, m_drawVectorData : BOOLEAN]
  /\ depthCleared = FALSE /\ trace = <<>>
  /\ ArgRest /\ DimRest /\ PrepRest /\ DivRest

\* if (m_drawHeightplot) { glClear(COLOR | DEPTH); opengl_drawHeightplot(); return; }
PaintHeightplot ==
  /\ call = "paintGL" /\ at = "entry" /\ drawFlags.m_drawHeightplot
  /\ depthCleared' = TRUE
  /\ trace' = Append(trace, "opengl_drawHeightplot")
  /\ at' = "returned"
  /\ UNCHANGED <<rayVars, paintUnchanged>>

\* glClear(GL_COLOR_BUFFER_BIT)
PaintClearColor ==
  /\ call = "paintGL" /\ at = "entry" /\ ~drawFlags.m_drawHeightplot
  /\ at' = "lic"
  /\ UNCHANGED <<rayVars, paintUnchanged, trace, depthCleared>>

\* mutant: the return after opengl_drawLic() is missing
PaintLICNoReturn ==
  /\ call = "paintGL" /\ at = "lic"
  /\ trace' = IF drawFlags.m_drawLIC THEN Append(trace, "opengl_drawLic") ELSE trace
  /\ at' = "volume"
  /\ UNCHANGED <<rayVars, paintUnchanged, depthCleared>>

\* if (m_drawLIC) { opengl_drawLic(); return; }
PaintLIC ==
  /\ call = "paintGL" /\ at = "lic"
  /\ trace' = IF drawFlags.m_drawLIC THEN Append(trace, "opengl_drawLic") ELSE trace
  /\ at' = IF drawFlags.m_drawLIC THEN "returned" ELSE "volume"
  /\ UNCHANGED <<rayVars, paintUnchanged, depthCleared>>

\* if (m_drawVolumeRendering) { opengl_drawVolumeRendering(); return; }
PaintVolumeRendering ==
  /\ call = "paintGL" /\ at = "volume"
  /\ trace' = IF drawFlags.m_drawVolumeRendering THEN Append(trace, "opengl_drawVolumeRendering")
                                                  ELSE trace
  /\ at' = IF drawFlags.m_drawVolumeRendering THEN "returned" ELSE "scalar"
  /\ UNCHANGED <<rayVars, paintUnchanged, depthCleared>>

\* if (m_drawScalarData) drawScalarData();
PaintScalarData ==
  /\ call = "paintGL" /\ at = "scalar"
  /\ trace' = IF drawFlags.m_drawScalarData THEN Append(trace, "drawScalarData") ELSE trace
  /\ at' = "isolines"
  /\ UNCHANGED <<rayVars, paintUnchanged, depthCleared>>

\* if (m_drawIsolines) { ...; opengl_drawIsolines(); }
PaintIsolines ==
  /\ call = "paintGL" /\ at = "isolines"
  /\ trace' = IF drawFlags.m_drawIsolines THEN Append(trace, "opengl_drawIsolines") ELSE trace
  /\ at' = "glyphs"
  /\ UNCHANGED <<rayVars, paintUnchanged, depthCleared>>

\* if (m_drawVectorData) { ...; drawGlyphs(); } and the end of the function
PaintVectorData ==
  /\ call = "paintGL" /\ at = "glyphs"
  /\ trace' = IF drawFlags.m_drawVectorData THEN Append(trace, "drawGlyphs") ELSE trace
  /\ at' = "returned"
  /\ UNCHANGED <<rayVars, paintUnchanged, depthCleared>>

\* ---- setDIM and the timer ---------------------------------------------------------------
\* The constructor starts m_timer and connects its timeout to doOneSimulationStep. Qt
\* delivers timeouts from the event loop; here a tick may come at any moment at which
\* the timer is active, which includes every moment the event loop could run.
setDIMUnchanged == <<ret, drawFlags, prepFlags, trace, depthCleared, scalarValues, idx, outOfRange>>

InitSetDIM ==
  /\ call = "setDIM" /\ at = "entry"
  /\ arg \in 1..MaxDIM /\ ret = <<>>
  /\ m_DIM \in 1..MaxDIM /\ simDIM = m_DIM
  /\ m_numberOfGlyphsX \in {1, m_DIM} /\ m_numberOfGlyphsY \in {1, m_DIM}
  /\ timerActive = TRUE /\ tickAtMismatch = FALSE
  /\ DrawRest /\ PrepRest /\ DivRest /\ trace = <<>>

\* timeout() -> doOneSimulationStep(): m_simulation.doOneSimulationStep(); update()
TimerTick ==
  /\ call = "setDIM" /\ timerActive
  /\ tickAtMismatch' = (tickAtMismatch \/ m_DIM # simDIM)
  /\ UNCHANGED <<rayVars, call, at, arg, m_DIM, simDIM, m_numberOfGlyphsX, m_numberOfGlyphsY,
                 timerActive, setDIMUnchanged>>

\* mutant: setDIM does not stop the timer
SetDIMKeepTimer ==
  /\ call = "setDIM" /\ at = "entry"
  /\ at' = "stopped"
  /\ UNCHANGED <<rayVars, call, arg, m_DIM, simDIM, m_numberOfGlyphsX, m_numberOfGlyphsY,
                 timerActive, tickAtMismatch, setDIMUnchanged>>

\* m_timer.stop()
SetDIMStopTimer ==
  /\ call = "setDIM" /\ at = "entry"
  /\ timerActive' = FALSE
  /\ at' = "stopped"
  /\ UNCHANGED <<rayVars, call, arg, m_DIM, simDIM, m_numberOfGlyphsX, m_numberOfGlyphsY,
                 tickAtMismatch, setDIMUnchanged>>

\* m_DIM = DIM; m_numberOfGlyphsX = m_DIM; m_numberOfGlyphsY = m_DIM;
\* opengl_setupAllBuffers(); resizeGL(width(), height())
SetDIMResizeVisualization ==
  /\ call = "setDIM" /\ at = "stopped"
  /\ m_DIM' = arg
  /\ m_numberOfGlyphsX' = arg /\ m_numberOfGlyphsY' = arg
  /\ at' = "visualizationResized"
  /\ UNCHANGED <<rayVars, call, arg, simDIM, timerActive, tickAtMismatch, setDIMUnchanged>>

\* m_simulation.setDIM(m_DIM): the simulation takes the new grid size
SetDIMResizeSimulation ==
  /\ call = "setDIM" /\ at = "visualizationResized"
  /\ simDIM' = m_DIM
  /\ at' = "simulationResized"
  /\ UNCHANGED <<rayVars, call, arg, m_DIM, m_numberOfGlyphsX, m_numberOfGlyphsY,
                 timerActive, tickAtMismatch, setDIMUnchanged>>

\* m_timer.start() and return
SetDIMStartTimer ==
  /\ call = "setDIM" /\ at = "simulationResized"
  /\ timerActive' = TRUE
  /\ at' = "returned"
  /\ UNCHANGED <<rayVars, call, arg, m_DIM, simDIM, m_numberOfGlyphsX, m_numberOfGlyphsY,
                 tickAtMismatch, setDIMUnchanged>>

\* ---- applyPreprocessing and its stages ---------------------------------------------------
\* A number v of a scalar field or of the image is kept as <<w, n>> with v = w * 2^32 + n,
\* so that unsigned int values above the range of the model's integers can be written:
\* w = 0 for every ordinary value, w = 1 with n < 0 for a negative long cast to unsigned int.
\* Field values are the integers -MaxValue..MaxValue, vectors have 1..MaxLen elements.
MaxValue == 2
MaxLen == 2
FieldValues == {<<0, n>> : n \in -MaxValue..MaxValue}
Fields == UNION {[1..len -> FieldValues] : len \in 1..MaxLen}

\* *std::max_element(scalarValues.cbegin(), scalarValues.cend()), non-empty vector
maxElement(v) == CHOOSE m \in {v[k][2] : k \in 1..Len(v)} : \A k \in 1..Len(v) : v[k][2] <= m

\* std::lroundf(num / den): nearest integer, halfway cases away from zero (den # 0)
lroundf(num, den) ==
  LET n == IF den < 0 THEN -num ELSE num
      d == abs(den)
  IN  IF n >= 0 THEN (2 * n + d) \div (2 * d) ELSE -((2 * (-n) + d) \div (2 * d))

\* static_cast<unsigned int>(long): the value modulo 2^32
toUnsignedInt(n) == IF n < 0 THEN <<1, n>> ELSE <<0, n>>

\* lroundf of an infinity or a NaN (division by maxValue = 0) returns an unspecified
\* long; the values a build may store for it
UnspecifiedImageValues == {<<0, 0>>, <<0, 256>>, <<1, -1>>}

\* the values image.push_back may store for element x
quantized(x, maxValue) ==
  IF maxValue = 0 THEN UnspecifiedImageValues
  ELSE {toUnsignedInt(lroundf(x * 255, maxValue))}

\* the images the loop of applyQuantization may build from scalarValues
Images(v) ==
  {image \in [1..Len(v) -> UNION {quantized(v[k][2], maxElement(v)) : k \in 1..Len(v)}] :
     \A k \in 1..Len(v) : image[k] \in quantized(v[k][2], maxElement(v))}

\* float(unsigned int): exact below 2^24; just below 2^32 the floats are 256 apart
toFloat(u) ==
  IF u[1] = 0 THEN u
  ELSE LET q == (-u[2]) \div 256
           r == (-u[2]) % 256
       IN  <<1, -(256 * (IF r > 128 \/ (r = 128 /\ q % 2 = 1) THEN q + 1 ELSE q))>>

prepUnchanged == <<call, arg, m_DIM, simDIM, m_numberOfGlyphsX, m_numberOfGlyphsY, timerActive,
                   tickAtMismatch, drawFlags, prepFlags, depthCleared, idx, outOfRange>>

\* arg is the vector as it was passed in, ret the local vector image of applyQuantization
InitApplyPreprocessing ==
  /\ call = "applyPreprocessing" /\ at = "entry"
  /\ prepFlags \in [m_useQuantization : BOOLEAN, m_useGaussianBlur : BOOLEAN,
                     m_useGradients : BOOLEAN, m_useSlicing : BOOLEAN]
  /\ scalarValues \in Fields
  /\ arg = scalarValues /\ ret = <<>>
  /\ DimRest /\ DrawRest /\ DivRest /\ trace = <<>>

\* if (m_useQuantization) applyQuantization(scalarValues);
\* the quantization itself is a placeholder: the image goes back unchanged, as floats
PrepQuantization ==
  /\ call = "applyPreprocessing" /\ at = "entry"
  /\ IF prepFlags.m_useQuantization
     THEN /\ \E image \in Images(scalarValues) :
               /\ ret' = image
               /\ scalarValues' = [k \in 1..Len(image) |-> toFloat(image[k])]
          /\ trace' = Append(trace, "applyQuantization")
     ELSE UNCHANGED <<ret, scalarValues, trace>>
  /\ at' = "blur"
  /\ UNCHANGED <<rayVars, prepUnchanged>>

\* if (m_useGaussianBlur) applyGaussianBlur(scalarValues); not implemented, only logs
PrepGaussianBlur ==
  /\ call = "applyPreprocessing" /\ at = "blur"
  /\ trace' = IF prepFlags.m_useGaussianBlur THEN Append(trace, "applyGaussianBlur") ELSE trace
  /\ at' = "gradients"
  /\ UNCHANGED <<rayVars, prepUnchanged, ret, scalarValues>>

\* if (m_useGradients) applyGradients(scalarValues); not implemented, only logs
PrepGradients ==
  /\ call = "applyPreprocessing" /\ at = "gradients"
  /\ trace' = IF prepFlags.m_useGradients THEN Append(trace, "applyGradients") ELSE trace
  /\ at' = "slicing"
  /\ UNCHANGED <<rayVars, prepUnchanged, ret, scalarValues>>

\* mutant: slicing runs whatever m_useSlicing is
PrepSlicingAlways ==
  /\ call = "applyPreprocessing" /\ at = "slicing"
  /\ trace' = Append(trace, "applySlicing")
  /\ at' = "returned"
  /\ UNCHANGED <<rayVars, prepUnchanged, ret, scalarValues>>

\* if (m_useSlicing) applySlicing(scalarValues); not implemented, only logs
PrepSlicing ==
  /\ call = "applyPreprocessing" /\ at = "slicing"
  /\ trace' = IF prepFlags.m_useSlicing THEN Append(trace, "applySlicing") ELSE trace
  /\ at' = "returned"
  /\ UNCHANGED <<rayVars, prepUnchanged, ret, scalarValues>>

InitViz ==
  RayRest /\ (InitDivergence \/ InitOpacityCorrection \/ InitTransferFunction \/ InitPaintGL
              \/ InitSetDIM \/ InitApplyPreprocessing)
NextViz ==
  \/ DivResize \/ DivFirst \/ DivFirstRow \/ DivFirstRowDone \/ DivMiddle \/ DivMiddleDone
  \/ DivLast \/ DivLastRow \/ DivReturn
  \/ OpacityCorrection
  \/ TransferFunction
  \/ PaintHeightplot \/ PaintClearColor \/ PaintLIC \/ PaintVolumeRendering
  \/ PaintScalarData \/ PaintIsolines \/ PaintVectorData
  \/ TimerTick \/ SetDIMStopTimer \/ SetDIMResizeVisualization \/ SetDIMResizeSimulation
  \/ SetDIMStartTimer
  \/ PrepQuantization \/ PrepGaussianBlur \/ PrepGradients \/ PrepSlicing
SpecViz == InitViz /\ [][NextViz]_vars

\* ---- C13 --------------------------------------------------------------------------
\* C13 as stated: opacityCorrection(alpha, 1) == alpha for every alpha in [0,1], in the
\* shader and in the C++ implementation.
C13_UnitRatioIsIdentity ==
  (call \in OpacityCorrections /\ at = "returned" /\ arg[2] = 1) => ret = arg[1]

\* C13 amended: opacityCorrection(alpha, 1) is alpha rounded to a multiple of 2^-24; it
\* equals alpha for every alpha that is a multiple of 2^-24 (every float in [0.5,1] is one)
\* and differs from alpha by at most 2^-25 otherwise.
C13_UnitRatioIsIdentityUpToRounding ==
  (call \in OpacityCorrections /\ at = "returned" /\ arg[2] = 1) =>
    /\ ret % 2^6 = 0
    /\ arg[1] % 2^6 = 0 => ret = arg[1]
    /\ abs(ret - arg[1]) <= 2^5
\* alpha = 0.75 comes back unchanged
C13_Witness ==
  call \in OpacityCorrections /\ at = "returned" /\ arg = <<3 * 2^28, 1>> /\ ret = 3 * 2^28
\* ---- C15 --------------------------------------------------------------------------
\* the periodic previous neighbours of row-major index k on a dim * dim grid
PeriodicPreviousX(dim, k) == ((k \div dim) * dim) + (((k % dim) - 1) % dim)
PeriodicPreviousY(dim, k) == ((((k \div dim) - 1) % dim) * dim) + (k % dim)

\* C15: for every DIM >= 2 and every idx in 0..DIM*DIM-1 both divergence functions take
\* the x-difference against the same row at column (col - 1) mod DIM and the y-difference
\* against the same column at row (row - 1) mod DIM, in every row.
C15_PeriodicBackwardDifference ==
  (call \in Divergences /\ at = "returned" /\ m_DIM >= 2) =>
    \A k \in 0..(m_DIM * m_DIM - 1) :
      ret[k + 1] = <<k, PeriodicPreviousX(m_DIM, k), PeriodicPreviousY(m_DIM, k)>>

\* ---- C19 --------------------------------------------------------------------------
\* C19: for every DIM >= 1 both divergence functions assign every element 0..DIM*DIM-1 of
\* the result, and every index they write or read (idx, previousX_idx, previousY_idx)
\* lies in 0..DIM*DIM-1: no out-of-range access and no unsigned underflow.
C19_DivergenceIndicesInRange ==
  call \in Divergences =>
    /\ ~outOfRange
    /\ idx >= 0 /\ m_DIM - 1 >= 0
    /\ \A k \in 1..Len(ret) :
         \/ ret[k] = <<>>
         \/ ret[k][1] = k - 1 /\ InRange(ret[k][2]) /\ InRange(ret[k][3])
    /\ at = "returned" => /\ Len(ret) = m_DIM * m_DIM
                          /\ \A k \in 1..Len(ret) : ret[k] # <<>>
\* the smallest grid, where the first and the last row are the same row
C19_Witness == call \in Divergences /\ at = "returned" /\ m_DIM = 1

\* ---- C14 --------------------------------------------------------------------------
\* the result at the next argument, one half step further
NextColor == transferFunctionCpp(arg + 1)
\* the step from arg to arg + 1 crosses the transparency threshold 0.2
CrossesThreshold == 5 * arg < ValueSteps /\ ~(5 * (arg + 1) < ValueSteps)

\* C14: at the normalized value 0.5 the blue-to-green segment (t = 2 * value) and the
\* green-to-red segment (t = 2 * (value - 0.5)) give the same rgb colour, colorNode1, and
\* over the whole range no channel jumps except alpha at the transparency threshold 0.2:
\* between neighbouring arguments rgb moves by at most the slope of a segment (2 per unit
\* of the normalized value) and alpha by at most its slope (0.5 per unit).
C14_ContinuousAtNodeBoundary ==
  (call = "transferFunction" /\ at = "returned") =>
    /\ 2 * arg = ValueSteps =>
         /\ interpolate(colorNode0, colorNode1, arg) = interpolate(colorNode1, colorNode2, arg - TUnit)
         /\ <<ret[1], ret[2], ret[3]>> = <<0, TUnit, 0>>
    /\ arg < ValueSteps =>
         /\ \A ch \in 1..3 : abs(NextColor[ch] - ret[ch]) <= 1
         /\ ~CrossesThreshold => abs(NextColor[4] - ret[4]) <= 1
         /\ CrossesThreshold => abs(NextColor[4] - ret[4]) > 1
\* the call at the node boundary 0.5 returns green
C14_Witness ==
  call = "transferFunction" /\ at = "returned" /\ 2 * arg = ValueSteps /\ ret[2] = TUnit

\* ---- C16 --------------------------------------------------------------------------
Drawn(f) == \E k \in 1..Len(trace) : trace[k] = f
Exclusive == {"opengl_drawHeightplot", "opengl_drawLic", "opengl_drawVolumeRendering"}
Combinable == {"drawScalarData", "opengl_drawIsolines", "drawGlyphs"}
RECURSIVE Selected(_, _)
Selected(fs, on) ==
  IF fs = <<>> THEN <<>>
  ELSE IF Head(on) THEN <<Head(fs)>> \o Selected(Tail(fs), Tail(on))
       ELSE Selected(Tail(fs), Tail(on))

\* C16: whatever the flags, a paintGL call draws at most one of height plot, LIC and volume
\* rendering (the first whose flag is set, in that priority) and then none of scalar data,
\* isolines, glyphs; with none of the three flags set it draws scalar data, isolines and
\* glyphs, each exactly when its flag is set, in that order. The depth buffer is cleared
\* only in the height-plot case.
C16_ExclusiveModesDrawAlone ==
  call = "paintGL" =>
    /\ depthCleared => drawFlags.m_drawHeightplot
    /\ Cardinality({f \in Exclusive : Drawn(f)}) <= 1
    /\ (\E f \in Exclusive : Drawn(f)) => \A g \in Combinable : ~Drawn(g)
    /\ at = "returned" =>
         /\ depthCleared = drawFlags.m_drawHeightplot
         /\ Drawn("opengl_drawHeightplot") = drawFlags.m_drawHeightplot
         /\ Drawn("opengl_drawLic") = (~drawFlags.m_drawHeightplot /\ drawFlags.m_drawLIC)
         /\ Drawn("opengl_drawVolumeRendering") =
              (~drawFlags.m_drawHeightplot /\ ~drawFlags.m_drawLIC /\ drawFlags.m_drawVolumeRendering)
         /\ (~drawFlags.m_drawHeightplot /\ ~drawFlags.m_drawLIC /\ ~drawFlags.m_drawVolumeRendering) =>
              trace = Selected(<<"drawScalarData", "opengl_drawIsolines", "drawGlyphs">>,
                               <<drawFlags.m_drawScalarData, drawFlags.m_drawIsolines,
                                 drawFlags.m_drawVectorData>>)
         /\ Len(trace) <= 3
\* every flag is set and only the height plot was drawn
C16_Witness ==
  /\ call = "paintGL" /\ at = "returned"
  /\ \A f \in DOMAIN drawFlags : drawFlags[f]
  /\ trace = <<"opengl_drawHeightplot">>

C18_ImageValuesAre8Bit ==
  (call = "applyPreprocessing" /\ Drawn("applyQuantization")) =>
    /\ Len(ret) = Len(arg)
    /\ \A k \in 1..Len(ret) : ret[k][1] = 0 /\ 0 <= ret[k][2] /\ ret[k][2] <= 255

\* ---- C20 --------------------------------------------------------------------------
\* C20: applyPreprocessing runs the stages in the order quantization, Gaussian blur,
\* gradients, slicing, each at most once and only when its flag is set; with
\* m_useQuantization false the vector is left as it was, whatever the other three flags.
C20_StagesInOrder ==
  call = "applyPreprocessing" =>
    /\ \A f \in DOMAIN prepFlags : ~prepFlags[f] =>
         ~Drawn(CASE f = "m_useQuantization" -> "applyQuantization"
                  [] f = "m_useGaussianBlur" -> "applyGaussianBlur"
                  [] f = "m_useGradients" -> "applyGradients"
                  [] OTHER -> "applySlicing")
    /\ ~prepFlags.m_useQuantization => scalarValues = arg
    /\ at = "returned" =>
         trace = Selected(<<"applyQuantization", "applyGaussianBlur", "applyGradients", "applySlicing">>,
                          <<prepFlags.m_useQuantization, prepFlags.m_useGaussianBlur,
                            prepFlags.m_useGradients, prepFlags.m_useSlicing>>)
\* quantization is off, the other three stages ran in order and the vector is untouched
C20_Witness ==
  /\ call = "applyPreprocessing" /\ at = "returned"
  /\ trace = <<"applyGaussianBlur", "applyGradients", "applySlicing">>
  /\ scalarValues = arg

====
